---- MODULE Spec2Model ----
(***************************************************************************)
(* Iterative research pipeline of run.py (LangGraph controller, command    *)
(* line) and stream.py (Streamlit dashboard).                              *)
(*                                                                         *)
(* Text is modelled by TLA+ strings and the Python string operations the   *)
(* nodes use are operators on them (1-based SubSeq for slicing).  The      *)
(* external capabilities (web search, the three chat models, the operator  *)
(* at the keyboard or in the browser) are inputs drawn from small sets.    *)
(***************************************************************************)
EXTENDS Integers, Sequences, FiniteSets, TLC

(***************************************************************************)
(* Python str helpers                                                      *)
(***************************************************************************)

\* s[i] for a 0-based Python index i
Ch(s, i) == SubSeq(s, i + 1, i + 1)

Min2(x, y) == IF x <= y THEN x ELSE y

\* s[:n]
SliceTo(s, n) == SubSeq(s, 1, Min2(n, Len(s)))

\* s[n:]
SliceFrom(s, n) == SubSeq(s, Min2(n, Len(s)) + 1, Len(s))

\* the ASCII characters str.strip() and str.split() treat as whitespace:
\* space, \t, \n, \r, \f, and the characters 11 (vertical tab), 28, 29, 30
\* and 31, which are written here as themselves
Whitespace == {" ", "\t", "\n", "\r", "\f", "", "", "", "", ""}

RECURSIVE LStrip(_)
LStrip(s) ==
  IF Len(s) > 0 /\ Ch(s, 0) \in Whitespace THEN LStrip(SliceFrom(s, 1)) ELSE s

RECURSIVE RStrip(_)
RStrip(s) ==
  IF Len(s) > 0 /\ Ch(s, Len(s) - 1) \in Whitespace
  THEN RStrip(SliceTo(s, Len(s) - 1)) ELSE s

\* str.strip()
Strip(s) == RStrip(LStrip(s))

\* str.startswith(p)
StartsWith(s, p) == Len(s) >= Len(p) /\ SliceTo(s, Len(p)) = p

\* p in s
Contains(s, p) ==
  \E i \in 0..(Len(s) - Len(p)) : SubSeq(s, i + 1, i + Len(p)) = p

UpperCase == "ABCDEFGHIJKLMNOPQRSTUVWXYZ"
LowerCase == "abcdefghijklmnopqrstuvwxyz"

UpperChars == {Ch(UpperCase, k) : k \in 0..25}

LowerCh(c) ==
  IF c \in UpperChars
  THEN Ch(LowerCase, CHOOSE k \in 0..25 : Ch(UpperCase, k) = c)
  ELSE c

\* The character-wise operators below recurse on the two halves of the text,
\* which keeps the evaluation depth logarithmic in its length.

RECURSIVE Lower(_)
\* str.lower() on ASCII text
Lower(s) ==
  IF Len(s) = 0 THEN ""
  ELSE IF Len(s) = 1 THEN LowerCh(s)
  ELSE Lower(SliceTo(s, Len(s) \div 2)) \o Lower(SliceFrom(s, Len(s) \div 2))

RECURSIVE ReplaceNewlines(_)
\* s.replace('\n', ' ')
ReplaceNewlines(s) ==
  IF Len(s) = 0 THEN ""
  ELSE IF Len(s) = 1 THEN (IF s = "\n" THEN " " ELSE s)
  ELSE ReplaceNewlines(SliceTo(s, Len(s) \div 2))
       \o ReplaceNewlines(SliceFrom(s, Len(s) \div 2))

\* sep.join(s.split(sep)[:n]) for a separator that cannot overlap itself:
\* s up to its n-th occurrence of sep, all of s when it has fewer
FirstPieces(s, sep, n) ==
  LET hits == {i \in 0..(Len(s) - Len(sep)) : SubSeq(s, i + 1, i + Len(sep)) = sep}
  IN  IF Cardinality(hits) < n THEN s
      ELSE SliceTo(s, CHOOSE i \in hits : Cardinality({k \in hits : k < i}) = n - 1)

RECURSIVE CollapseWhitespace(_)
\* every run of whitespace replaced by one space
CollapseWhitespace(s) ==
  IF Len(s) = 0 THEN ""
  ELSE IF Len(s) = 1 THEN (IF s \in Whitespace THEN " " ELSE s)
  ELSE LET l == CollapseWhitespace(SliceTo(s, Len(s) \div 2))
           r == CollapseWhitespace(SliceFrom(s, Len(s) \div 2))
       IN  IF Ch(l, Len(l) - 1) = " " /\ Ch(r, 0) = " "
           THEN l \o SliceFrom(r, 1) ELSE l \o r

\* ' '.join(s.split()[:n])
FirstWords(s, n) == FirstPieces(Strip(CollapseWhitespace(s)), " ", n)

(***************************************************************************)
(* difflib.SequenceMatcher(None, a, b).ratio(), as is_similar uses it.     *)
(* Indices are Python's: 0-based, windows half open [alo, ahi).            *)
(***************************************************************************)

\* autojunk: with len(b) >= 200 an element of b occurring more than
\* len(b) // 100 + 1 times is "popular" and starts no match
AutojunkMinLen == 200

CharsOf(s) == {Ch(s, i) : i \in 0..(Len(s) - 1)}

Popular(b) ==
  IF Len(b) >= AutojunkMinLen
  THEN {c \in CharsOf(b) :
          Cardinality({j \in 0..(Len(b) - 1) : Ch(b, j) = c}) > (Len(b) \div 100) + 1}
  ELSE {}

RECURSIVE PopMask(_, _)
\* one flag per element of s: "1" where it is popular in b, else "0"
PopMask(s, pop) ==
  IF Len(s) = 0 THEN ""
  ELSE IF Len(s) = 1 THEN (IF s \in pop THEN "1" ELSE "0")
  ELSE PopMask(SliceTo(s, Len(s) \div 2), pop)
       \o PopMask(SliceFrom(s, Len(s) \div 2), pop)

RECURSIVE Zeros(_)
\* n flags "0"
Zeros(n) ==
  IF n = 0 THEN ""
  ELSE LET h == Zeros(n \div 2)
       IN  h \o h \o (IF n % 2 = 1 THEN "0" ELSE "")

\* the blocks of k elements of b[blo:bhi]
Blocks(b, k, blo, bhi) == {SubSeq(b, j + 1, j + k) : j \in blo..(bhi - k)}

\* a[i:i+k] holds no popular element and is one of `blocks`
MatchAt(a, amask, zeros, i, k, blocks) ==
  /\ SubSeq(amask, i + 1, i + k) = SubSeq(zeros, 1, k)
  /\ SubSeq(a, i + 1, i + k) \in blocks

\* the starts in a[alo:ahi] of the matches of k non-popular elements
MatchStarts(a, b, amask, zeros, k, alo, ahi, blo, bhi) ==
  LET blocks == Blocks(b, k, blo, bhi)
  IN  {i \in alo..(ahi - k) : MatchAt(a, amask, zeros, i, k, blocks)}

HasMatch(a, b, amask, zeros, k, alo, ahi, blo, bhi) ==
  MatchStarts(a, b, amask, zeros, k, alo, ahi, blo, bhi) # {}

RECURSIVE LongestSize(_, _, _, _, _, _, _, _, _, _)
\* the greatest k in lo..hi with a match of k non-popular elements (a match
\* of k elements holds one of every smaller size, so the search may bisect)
LongestSize(a, b, amask, zeros, lo, hi, alo, ahi, blo, bhi) ==
  IF lo = hi THEN lo
  ELSE LET mid == (lo + hi + 1) \div 2
       IN  IF HasMatch(a, b, amask, zeros, mid, alo, ahi, blo, bhi)
           THEN LongestSize(a, b, amask, zeros, mid, hi, alo, ahi, blo, bhi)
           ELSE LongestSize(a, b, amask, zeros, lo, mid - 1, alo, ahi, blo, bhi)

RECURSIVE CommonSuffix(_, _, _, _, _, _)
\* the greatest t in lo..hi with a[i-t:i] = b[j-t:j]
CommonSuffix(a, b, i, j, lo, hi) ==
  IF lo = hi THEN lo
  ELSE LET mid == (lo + hi + 1) \div 2
       IN  IF SubSeq(a, i - mid + 1, i) = SubSeq(b, j - mid + 1, j)
           THEN CommonSuffix(a, b, i, j, mid, hi)
           ELSE CommonSuffix(a, b, i, j, lo, mid - 1)

RECURSIVE CommonPrefix(_, _, _, _, _, _)
\* the greatest t in lo..hi with a[i:i+t] = b[j:j+t]
CommonPrefix(a, b, i, j, lo, hi) ==
  IF lo = hi THEN lo
  ELSE LET mid == (lo + hi + 1) \div 2
       IN  IF SubSeq(a, i + 1, i + mid) = SubSeq(b, j + 1, j + mid)
           THEN CommonPrefix(a, b, i, j, mid, hi)
           ELSE CommonPrefix(a, b, i, j, lo, mid - 1)

\* the first while loop after the search: the match grows to the left over
\* equal elements (bjunk is empty, so only equality is tested)
ExtendBack(a, b, i, j, alo, blo) ==
  CommonSuffix(a, b, i, j, 0, Min2(i - alo, j - blo))

\* the second while loop: the match grows to the right over equal elements
ExtendFwd(a, b, i, j, ahi, bhi) ==
  CommonPrefix(a, b, i, j, 0, Min2(ahi - i, bhi - j))

Least(S) == CHOOSE i \in S : \A x \in S : i <= x

\* besti: the earliest start in a of a block of k non-popular elements
EarliestInA(a, b, amask, zeros, k, alo, ahi, blo, bhi) ==
  IF k = 0 THEN alo
  ELSE Least(MatchStarts(a, b, amask, zeros, k, alo, ahi, blo, bhi))

\* bestj: the earliest start in b of the block a[besti:besti+k]
EarliestInB(a, b, besti, k, blo, bhi) ==
  IF k = 0 THEN blo
  ELSE Least({j \in blo..(bhi - k) :
                SubSeq(b, j + 1, j + k) = SubSeq(a, besti + 1, besti + k)})

\* the block (besti, bestj, k) with what the two loops add to it
Extended(besti, bestj, k, back, fwd) ==
  [i |-> besti - back, j |-> bestj - back, size |-> k + back + fwd]

ExtendedAt(a, b, besti, bestj, k, alo, ahi, blo, bhi) ==
  Extended(besti, bestj, k,
           ExtendBack(a, b, besti, bestj, alo, blo),
           ExtendFwd(a, b, besti + k, bestj + k, ahi, bhi))

LongestFrom(a, b, besti, k, alo, ahi, blo, bhi) ==
  ExtendedAt(a, b, besti, EarliestInB(a, b, besti, k, blo, bhi), k,
             alo, ahi, blo, bhi)

LongestOfSize(a, b, amask, zeros, k, alo, ahi, blo, bhi) ==
  LongestFrom(a, b, EarliestInA(a, b, amask, zeros, k, alo, ahi, blo, bhi), k,
              alo, ahi, blo, bhi)

\* find_longest_match: the longest block of non-popular elements, the one
\* starting earliest in a and then earliest in b, then extended both ways
find_longest_match(a, b, amask, zeros, alo, ahi, blo, bhi) ==
  LongestOfSize(a, b, amask, zeros,
                LongestSize(a, b, amask, zeros, 0, Min2(ahi - alo, bhi - blo),
                            alo, ahi, blo, bhi),
                alo, ahi, blo, bhi)

RECURSIVE MatchedSize(_, _, _, _, _, _, _, _)

\* the size of the match m and of the matching blocks to its left and right
MatchedAround(a, b, amask, zeros, m, alo, ahi, blo, bhi) ==
  IF m.size = 0 THEN 0
  ELSE m.size
       + (IF alo < m.i /\ blo < m.j
          THEN MatchedSize(a, b, amask, zeros, alo, m.i, blo, m.j) ELSE 0)
       + (IF m.i + m.size < ahi /\ m.j + m.size < bhi
          THEN MatchedSize(a, b, amask, zeros, m.i + m.size, ahi, m.j + m.size, bhi)
          ELSE 0)

\* sum of the sizes of get_matching_blocks()
MatchedSize(a, b, amask, zeros, alo, ahi, blo, bhi) ==
  MatchedAround(a, b, amask, zeros,
                find_longest_match(a, b, amask, zeros, alo, ahi, blo, bhi),
                alo, ahi, blo, bhi)

Matches(a, b) ==
  LET amask == PopMask(a, Popular(b))
      zeros == Zeros(Len(a))
  IN  MatchedSize(a, b, amask, zeros, 0, Len(a), 0, Len(b))

\* is_similar's default threshold 0.75 as the fraction 75 / 100
ThresholdNum == 75
ThresholdDen == 100

\* is_similar(a, b): ratio() = 2.0 * matches / (len(a) + len(b)), and 1.0
\* for two empty sequences, compared with the threshold
is_similar(a, b) ==
  IF a = "" \/ b = "" THEN FALSE
  ELSE LET x == Strip(a)
           y == Strip(b)
           total == Len(x) + Len(y)
       IN  IF total = 0 THEN TRUE
           ELSE 2 * Matches(x, y) * ThresholdDen >= ThresholdNum * total

(***************************************************************************)
(* Limits and thresholds of run.py and stream.py                           *)
(***************************************************************************)

ResearchNodeLimit == 3      \* run_research: research_count > 3
SummarizeNodeLimit == 3     \* summarize: summarize_count > 3
MaxAttempts == 3            \* summarize: max_attempts
ResearchCap == 4            \* critic, escalation, router: research_count < 4
SummarizeCap == 4           \* critic, escalation, router: summarize_count < 4
LoopCeiling == 10           \* critic, router: loop_count against 10
MinSearchLen == 50          \* len(str(search_results)) > 50
MinResultLen == 100         \* len(result) < 100
MinFallbackLen == 100       \* len(fallback_content.strip()) > 100
MinFinalResultLen == 50     \* len(result) < 50
SearchSlice == 2000         \* str(search_results)[:2000]
MinContentLen == 100        \* len(content.strip()) < 100
MinCandidateLen == 50       \* len(candidate_summary) > 50
MinSummaryLen == 50         \* len(final_summary) < 50
BasicSlice == 400           \* basic_content[:400]
SentenceCount == 3          \* split('. ')[:3]
WordCount == 100            \* content.split()[:100]
ShortSummaryLen == 80       \* len(summary.strip()) < 80
DashMaxSteps == 10          \* run_full_research_cycle: max_steps
RecursionLimit == 25        \* main: graph.invoke(..., recursion_limit)

(***************************************************************************)
(* The outcome of a call to an external capability: it raises (text is     *)
(* then str(e)) or returns text (the response content, str(search_results))*)
(***************************************************************************)

Raised(msg) == [raises |-> TRUE, text |-> msg]
Returned(txt) == [raises |-> FALSE, text |-> txt]

(***************************************************************************)
(* Inputs: the query, what the external capabilities give and what the     *)
(* operator types (input() gives a line, or raises KeyboardInterrupt or    *)
(* another exception)                                                      *)
(***************************************************************************)

Line(txt) == [kind |-> "line", text |-> txt]
Interrupt == [kind |-> "interrupt", text |-> ""]
InputError == [kind |-> "error", text |-> ""]

Queries == {"gravity"}

\* a query of 13 or more characters: LimitedNotice reaches MinContentLen
LongQuery == "gravitational lensing"

SearchText ==
  "[{'url': 'https://example.org/gravity', 'content': 'Gravity is the attraction between all masses.'}]"

ShortSearchText == "[{'url': 'https://example.org/g', 'content': 'Gravity.'}]"

KnowledgeText ==
  "Gravity is a fundamental interaction. It attracts objects with mass toward each other. It keeps planets in orbit. Einstein described it as curved spacetime."

SummaryA == "- Gravity attracts masses. - It shapes orbits. - It bends light."

SearchOutcomes ==
  {Raised("connection refused"), Returned("[]"), Returned(ShortSearchText),
   Returned(SearchText)}

ResearchModelOutcomes ==
  {Raised("timeout"), Returned("I am not sure."), Returned(KnowledgeText)}

\* what the max_attempts calls of summarizer_model.invoke would give, in order
SummarizerAttempts ==
  {<<Returned(" " \o SummaryA \o "\n"), Returned(""), Returned("")>>,
   <<Raised("rate limit"), Returned("Gravity."), Returned(SummaryA)>>,
   <<Returned(""), Raised("rate limit"), Returned("Too short to keep.")>>,
   <<Raised("rate limit"), Raised("rate limit"), Raised("rate limit")>>}

CriticOutcomes ==
  {Raised("timeout"), Returned("end"), Returned(" Resummarize\n"),
   Returned("reresearch"), Returned("unclear"), Returned("I recommend it."),
   Returned("END, or reresearch"), Returned("End.")}

OperatorInputs ==
  {Line("1"), Line("2"), Line(" R"), Line("3"), Line("4"), Line("x"),
   Interrupt, InputError}

\* what the calls of input() give after the choice "4": lines, an interrupt
\* or an error; after the last one the input is at its end (EOFError)
ManualStreams ==
  {<<Line(" "), Line("")>>,
   <<Line(" Gravity is curvature."), Line(""), Line("It bends light."), Line(" "),
     Line("")>>,
   <<Line("Gravity is curvature."), Line("")>>,
   <<Line("Gravity is curvature."), Interrupt>>}

\* the text of the dashboard's "Enter your improved summary" area
DashManualInputs ==
  {"", " \n", " Gravity is curvature.\n\nIt bends light.\n"}

(***************************************************************************)
(* researcher_node.run_research                                            *)
(***************************************************************************)

AttemptLimitNotice(query) ==
  "Research attempt limit reached for query: " \o query \o "."

WebResult(query, results) ==
  "Web search results for '" \o query \o "':\n\n" \o SliceTo(results, SearchSlice)

KnowledgeResult(query, content) ==
  "Knowledge base information for '" \o query \o "':\n\n" \o content

LimitedNotice(query) ==
  "Limited information available for '" \o query
    \o "'. This may be a very specialized or emerging topic."

DifficultiesNotice(query, msg) ==
  "Research encountered difficulties for '" \o query \o "'. Error: " \o msg

MinimalNotice(query) ==
  "Minimal information available for '" \o query
    \o "'. This could indicate a very specialized topic or technical issues."

\* line 106: the phrasing handed to search_tool.run
SearchQuery(query) == query \o " basics explanation"

\* lines 104-112: result after the search tier ("" stands for None); `tool`
\* is whether search_tool is set
SearchTier(query, tool, search) ==
  IF tool /\ ~search.raises /\ search.text # ""
     /\ Len(search.text) > MinSearchLen
  THEN WebResult(query, search.text)
  ELSE ""

\* line 114: the generation fallback is consulted
NeedsFallback(result) == result = "" \/ Len(result) < MinResultLen

\* lines 114-138: result after the generation tier
FallbackTier(query, result, llm) ==
  IF ~NeedsFallback(result) THEN result
  ELSE IF llm.raises THEN DifficultiesNotice(query, llm.text)
  ELSE IF llm.text # "" /\ Len(Strip(llm.text)) > MinFallbackLen
       THEN KnowledgeResult(query, llm.text)
  ELSE LimitedNotice(query)

\* ResearchResult with the attempt limit at the cap of the router
ResearchResult_LimitAtCap(query, research_count, tool, search, llm) ==
  IF research_count > ResearchCap THEN AttemptLimitNotice(query)
  ELSE LET r == FallbackTier(query, SearchTier(query, tool, search), llm)
       IN  IF r = "" \/ Len(r) < MinFinalResultLen THEN MinimalNotice(query) ELSE r

\* lines 99-141: the new raw_content
ResearchResult(query, research_count, tool, search, llm) ==
  IF research_count > ResearchNodeLimit THEN AttemptLimitNotice(query)
  ELSE LET r == FallbackTier(query, SearchTier(query, tool, search), llm)
       IN  IF r = "" \/ Len(r) < MinFinalResultLen THEN MinimalNotice(query) ELSE r

\* run_research that also drops the summary it was given
run_research_ClearsSummary(input_state, tool, search, llm) ==
  LET research_count == input_state.research_count + 1
  IN  [input_state EXCEPT
         !.raw_content = ResearchResult(input_state.query, research_count,
                                        tool, search, llm),
         !.research_count = research_count,
         !.summary = "",
         !.decision = ""]

run_research(input_state, tool, search, llm) ==
  LET research_count == input_state.research_count + 1
  IN  [input_state EXCEPT
         !.raw_content = ResearchResult(input_state.query, research_count,
                                        tool, search, llm),
         !.research_count = research_count,
         !.decision = ""]

\* whether this execution calls search_tool.run / the research model
ResearchCallsSearch(input_state, tool) ==
  input_state.research_count + 1 <= ResearchNodeLimit /\ tool

ResearchCallsModel(input_state, tool, search) ==
  /\ input_state.research_count + 1 <= ResearchNodeLimit
  /\ NeedsFallback(SearchTier(input_state.query, tool, search))

\* a capability this execution does not call has no outcome
NotCalled == Returned("")

\* what search_tool.run may give this execution
SearchesOf(input_state, tool) ==
  IF ResearchCallsSearch(input_state, tool) THEN SearchOutcomes ELSE {NotCalled}

\* what research_llm.invoke may give it after the search gave `search`
ResearchModelsOf(input_state, tool, search) ==
  IF ResearchCallsModel(input_state, tool, search)
  THEN ResearchModelOutcomes ELSE {NotCalled}

(***************************************************************************)
(* summarizer_node.summarize                                               *)
(***************************************************************************)

LimitReachedNotice == "Maximum summarization attempts reached."

LimitedSummary(query) ==
  "Research on '" \o query
    \o "' was limited. The topic may require specialized sources or more specific search terms. Available information indicates this is related to "
    \o Lower(query) \o " but detailed coverage was not possible."

\* lines 225-227
SentenceSummary(query, content) ==
  "Summary of " \o query \o ": "
    \o SliceTo(FirstPieces(ReplaceNewlines(content), ". ", SentenceCount), BasicSlice)
    \o "..."

\* line 230
BriefSummary(query, final_summary) ==
  "Brief summary for '" \o query \o "': " \o final_summary
    \o "\n\nNote: Summary is limited due to source material constraints."

\* lines 236-238
EmergencySummary(query, content) ==
  "Basic information about " \o query \o ": " \o FirstWords(content, WordCount) \o "..."

\* lines 171-176
is_error_content(content) ==
  \/ StartsWith(content, "Research error")
  \/ StartsWith(content, "Research encountered")
  \/ StartsWith(content, "Minimal information")
  \/ Len(Strip(content)) < MinContentLen

\* line 215: the attempt's response is taken as the summary
GoodCandidate(outcome) ==
  ~outcome.raises /\ Strip(outcome.text) # "" /\ Len(Strip(outcome.text)) > MinCandidateLen

\* the attempts (1..max_attempts) the loop of lines 210-222 makes: it stops at
\* the first good candidate
AttemptsMade(attempts) ==
  IF \E k \in 1..MaxAttempts : GoodCandidate(attempts[k])
  THEN CHOOSE k \in 1..MaxAttempts :
         GoodCandidate(attempts[k]) /\ \A i \in 1..(k - 1) : ~GoodCandidate(attempts[i])
  ELSE MaxAttempts

\* GeneratedSummary whose handler of line 232 has no emergency summary
GeneratedSummary_NoEmergency(query, content, current_summary, attempts) ==
  LET n == AttemptsMade(attempts)
  IN  IF GoodCandidate(attempts[n])
      THEN LET final_summary == Strip(attempts[n].text)
           IN  IF Len(final_summary) < MinSummaryLen
               THEN BriefSummary(query, final_summary) ELSE final_summary
      ELSE IF attempts[MaxAttempts].raises
      THEN current_summary
      ELSE LET final_summary == SentenceSummary(query, content)
           IN  IF Len(final_summary) < MinSummaryLen
               THEN BriefSummary(query, final_summary) ELSE final_summary

\* lines 206-238: the summary the generation branch ends with
GeneratedSummary(query, content, current_summary, attempts) ==
  LET n == AttemptsMade(attempts)
  IN  IF GoodCandidate(attempts[n])
      THEN LET final_summary == Strip(attempts[n].text)
           IN  IF Len(final_summary) < MinSummaryLen
               THEN BriefSummary(query, final_summary) ELSE final_summary
      ELSE IF attempts[MaxAttempts].raises
      THEN \* the last attempt re-raises into the handler of line 232
           IF current_summary # "" THEN current_summary
           ELSE EmergencySummary(query, content)
      ELSE LET final_summary == SentenceSummary(query, content)
           IN  IF Len(final_summary) < MinSummaryLen
               THEN BriefSummary(query, final_summary) ELSE final_summary

\* FinalSummary without the attempt limit of line 168
FinalSummary_NoLimit(query, content, current_summary, summarize_count, attempts) ==
  IF is_error_content(content) THEN LimitedSummary(query)
  ELSE GeneratedSummary(query, content, current_summary, attempts)

\* lines 166-238: final_summary
FinalSummary(query, content, current_summary, summarize_count, attempts) ==
  IF summarize_count > SummarizeNodeLimit
  THEN (IF current_summary # "" THEN current_summary ELSE LimitReachedNotice)
  ELSE IF is_error_content(content) THEN LimitedSummary(query)
  ELSE GeneratedSummary(query, content, current_summary, attempts)

\* summarize that counts only the executions below its attempt limit
summarize_UncountedAtLimit(input_state, attempts) ==
  LET summarize_count == input_state.summarize_count + 1
  IN  [input_state EXCEPT
         !.previous_summary = input_state.summary,
         !.summary = FinalSummary(input_state.query, input_state.raw_content,
                                  input_state.summary, summarize_count, attempts),
         !.summarize_count =
            IF summarize_count > SummarizeNodeLimit THEN input_state.summarize_count
            ELSE summarize_count,
         !.decision = ""]

summarize(input_state, attempts) ==
  LET summarize_count == input_state.summarize_count + 1
  IN  [input_state EXCEPT
         !.previous_summary = input_state.summary,
         !.summary = FinalSummary(input_state.query, input_state.raw_content,
                                  input_state.summary, summarize_count, attempts),
         !.summarize_count = summarize_count,
         !.decision = ""]

\* the number of summarizer_model.invoke calls of this execution
SummarizeCalls(input_state, attempts) ==
  IF input_state.summarize_count + 1 > SummarizeNodeLimit THEN 0
  ELSE IF is_error_content(input_state.raw_content) THEN 0
  ELSE AttemptsMade(attempts)

(***************************************************************************)
(* human_feedback_node.get_human_feedback: one pass of its `while True`    *)
(* loop.  The operator's input is what input() gives: a line, or a         *)
(* KeyboardInterrupt, or another exception (end of input).                 *)
(***************************************************************************)

IsBlank(line) == Strip(line) = ""

\* the texts of the first n inputs of `stream`
ReadLines(stream, n) == [i \in 1..n |-> stream[i].text]

\* lines 429-435: the lines read until two blank lines in a row (end
\* "done"); input() raising KeyboardInterrupt, or another exception (as it
\* does at the end of the input), leaves the loop for the handlers of lines
\* 459 and 463
RECURSIVE ReadManual(_, _, _)
ReadManual(stream, k, empty_lines) ==
  IF empty_lines >= 2
  THEN [lines |-> ReadLines(stream, k - 1), end |-> "done"]
  ELSE IF k > Len(stream) \/ stream[k].kind = "error"
  THEN [lines |-> ReadLines(stream, k - 1), end |-> "error"]
  ELSE IF stream[k].kind = "interrupt"
  THEN [lines |-> ReadLines(stream, k - 1), end |-> "interrupt"]
  ELSE ReadManual(stream, k + 1,
                  IF IsBlank(stream[k].text) THEN empty_lines + 1 ELSE 0)

\* lines 437-438: trailing blank lines popped
RECURSIVE PopBlank(_)
PopBlank(manual_input) ==
  IF Len(manual_input) > 0 /\ IsBlank(manual_input[Len(manual_input)])
  THEN PopBlank(SubSeq(manual_input, 1, Len(manual_input) - 1))
  ELSE manual_input

\* "\n".join(lines)
RECURSIVE JoinLines(_)
JoinLines(lines) ==
  IF Len(lines) = 0 THEN ""
  ELSE IF Len(lines) = 1 THEN lines[1]
  ELSE lines[1] \o "\n" \o JoinLines(Tail(lines))

\* lines 427-441: manual_summary, "" when nothing was entered
ManualSummary(stream) == JoinLines(PopBlank(ReadManual(stream, 1, 0).lines))

\* lines 424-452, 459-465: how the pass of the choice "4" ends
ManualOutcome(read) ==
  IF read.end = "interrupt" THEN "accept"
  ELSE IF read.end = "error" THEN "again"
  ELSE IF PopBlank(read.lines) # <<>> THEN "manual"
  ELSE "again"

ChoiceIs(choice, digit, words) == choice = digit \/ Lower(choice) \in words

\* input() is called for the manual lines only after the choice "4"
StreamsFor(inp) ==
  IF inp.kind = "line" /\ ChoiceIs(Strip(inp.text), "4", {"manual", "m"})
  THEN ManualStreams
  ELSE {<<>>}

\* PromptOutcome without the cap checks of lines 408 and 416
PromptOutcome_NoCapCheck(input_state, inp, stream) ==
  LET choice == Strip(inp.text)
  IN  IF inp.kind = "interrupt" THEN "accept"
      ELSE IF inp.kind = "error" THEN "again"
      ELSE IF ChoiceIs(choice, "1", {"accept", "a"}) THEN "accept"
      ELSE IF ChoiceIs(choice, "2", {"research", "r"}) THEN "research"
      ELSE IF ChoiceIs(choice, "3", {"summarize", "s"}) THEN "summarize"
      ELSE IF ChoiceIs(choice, "4", {"manual", "m"})
           THEN ManualOutcome(ReadManual(stream, 1, 0))
      ELSE "again"

\* lines 399-465: what one pass does: "accept", "research", "summarize",
\* "manual" (leave the loop) or "again" (continue)
PromptOutcome(input_state, inp, stream) ==
  LET choice == Strip(inp.text)
  IN  IF inp.kind = "interrupt" THEN "accept"
      ELSE IF inp.kind = "error" THEN "again"
      ELSE IF ChoiceIs(choice, "1", {"accept", "a"}) THEN "accept"
      ELSE IF ChoiceIs(choice, "2", {"research", "r"})
           THEN (IF input_state.research_count >= ResearchCap THEN "again" ELSE "research")
      ELSE IF ChoiceIs(choice, "3", {"summarize", "s"})
           THEN (IF input_state.summarize_count >= SummarizeCap THEN "again" ELSE "summarize")
      ELSE IF ChoiceIs(choice, "4", {"manual", "m"})
           THEN ManualOutcome(ReadManual(stream, 1, 0))
      ELSE "again"

\* what a pass that continues the loop turned down: a capped "research" or
\* "summarize" choice, or "other" (no manual text, invalid choice, input error)
Refused(input_state, inp) ==
  LET choice == Strip(inp.text)
  IN  IF inp.kind # "line" \/ ChoiceIs(choice, "1", {"accept", "a"}) THEN "other"
      ELSE IF ChoiceIs(choice, "2", {"research", "r"}) THEN "research"
      ELSE IF ChoiceIs(choice, "3", {"summarize", "s"}) THEN "summarize"
      ELSE "other"

\* get_human_feedback that strips the manual summary before storing it
get_human_feedback_Stripped(input_state, inp, stream) ==
  LET outcome == PromptOutcome(input_state, inp, stream)
  IN  IF outcome = "manual"
      THEN [input_state EXCEPT
              !.summary = Strip(ManualSummary(stream)),
              !.decision = "end",
              !.loop_count = input_state.loop_count + 1]
      ELSE [input_state EXCEPT
              !.decision = (IF outcome = "research" THEN "reresearch"
                            ELSE IF outcome = "summarize" THEN "resummarize"
                            ELSE "end"),
              !.loop_count = input_state.loop_count + 1]

\* get_human_feedback that leaves loop_count as it is
get_human_feedback_Uncounted(input_state, inp, stream) ==
  LET outcome == PromptOutcome(input_state, inp, stream)
  IN  IF outcome = "manual"
      THEN [input_state EXCEPT
              !.summary = ManualSummary(stream),
              !.decision = "end"]
      ELSE [input_state EXCEPT
              !.decision = (IF outcome = "research" THEN "reresearch"
                            ELSE IF outcome = "summarize" THEN "resummarize"
                            ELSE "end")]

\* lines 445-450 and 467-471: the state returned once the loop is left
get_human_feedback(input_state, inp, stream) ==
  LET outcome == PromptOutcome(input_state, inp, stream)
  IN  IF outcome = "manual"
      THEN [input_state EXCEPT
              !.summary = ManualSummary(stream),
              !.decision = "end",
              !.loop_count = input_state.loop_count + 1]
      ELSE [input_state EXCEPT
              !.decision = (IF outcome = "research" THEN "reresearch"
                            ELSE IF outcome = "summarize" THEN "resummarize"
                            ELSE "end"),
              !.loop_count = input_state.loop_count + 1]

(***************************************************************************)
(* critic_node.evaluate                                                    *)
(***************************************************************************)

\* Classify that looks for "end" first
Classify_EndFirst(response) ==
  LET llm_decision == Lower(Strip(response))
  IN  IF Contains(llm_decision, "end") THEN "end"
      ELSE IF Contains(llm_decision, "reresearch") THEN "reresearch"
      ELSE IF Contains(llm_decision, "resummarize") THEN "resummarize"
      ELSE "resummarize"

\* lines 305-314: the classification parsed from the classifier's response
Classify(response) ==
  LET llm_decision == Lower(Strip(response))
  IN  IF Contains(llm_decision, "reresearch") THEN "reresearch"
      ELSE IF Contains(llm_decision, "resummarize") THEN "resummarize"
      ELSE IF Contains(llm_decision, "end") THEN "end"
      ELSE "resummarize"

\* the contents run_research gives and the summaries summarize and the
\* operator give for the inputs above
ResearchedContents ==
  {ResearchResult(query, research_count, tool, search, llm) :
     query \in Queries, research_count \in {1, ResearchNodeLimit + 1},
     tool \in BOOLEAN, search \in SearchOutcomes, llm \in ResearchModelOutcomes}

Summaries ==
  {FinalSummary(query, content, "", summarize_count, attempts) :
     query \in Queries, content \in ResearchedContents,
     summarize_count \in {1, SummarizeNodeLimit + 1}, attempts \in SummarizerAttempts}
  \cup {ManualSummary(stream) : stream \in ManualStreams}
  \cup DashManualInputs

\* is_similar on these summaries, evaluated once
SimilarSummaries ==
  UNION {IF is_similar(p[1], p[2]) THEN {p} ELSE {} : p \in Summaries \X Summaries}

\* is_similar(a, b)
Similar(a, b) ==
  IF a \in Summaries /\ b \in Summaries THEN <<a, b>> \in SimilarSummaries
  ELSE is_similar(a, b)

\* lines 316-317: the stagnation override
StagnationOverride(original_decision, summary, prev_summary, research_count) ==
  IF original_decision = "resummarize" /\ prev_summary # ""
     /\ Similar(summary, prev_summary)
  THEN (IF research_count < ResearchCap THEN "reresearch" ELSE "end")
  ELSE original_decision

\* lines 318-321
CriticDecision(original_decision, loop_count) ==
  IF loop_count < LoopCeiling
     /\ (original_decision = "reresearch" \/ original_decision = "resummarize")
  THEN original_decision
  ELSE "human_feedback"

FailureIndicators == {"failed", "error", "insufficient", "limited"}

\* HeuristicRecommendation without the tests of the counters
HeuristicRecommendation_NoCaps(summary, research_count, summarize_count) ==
  LET has_failure == \E w \in FailureIndicators : Contains(Lower(summary), Lower(w))
      is_too_short == Len(Strip(summary)) < ShortSummaryLen
  IN  IF has_failure THEN "reresearch"
      ELSE IF is_too_short THEN "resummarize"
      ELSE "end"

\* lines 325-334: the recommendation when the classifier call raised
HeuristicRecommendation(summary, research_count, summarize_count) ==
  LET has_failure == \E w \in FailureIndicators : Contains(Lower(summary), Lower(w))
      is_too_short == Len(Strip(summary)) < ShortSummaryLen
  IN  IF has_failure /\ research_count < ResearchCap THEN "reresearch"
      ELSE IF is_too_short /\ summarize_count < SummarizeCap THEN "resummarize"
      ELSE "end"

\* evaluate that writes no decision when the classifier call raised
evaluate_KeepsDecision(input_state, llm) ==
  LET loop_count == input_state.loop_count + 1
      original_decision ==
        IF llm.raises
        THEN HeuristicRecommendation(input_state.summary, input_state.research_count,
                                     input_state.summarize_count)
        ELSE StagnationOverride(Classify(llm.text), input_state.summary,
                                input_state.previous_summary,
                                input_state.research_count)
      decision ==
        IF llm.raises THEN input_state.decision
        ELSE CriticDecision(original_decision, loop_count)
  IN  [input_state EXCEPT
         !.decision = decision,
         !.loop_count = loop_count,
         !.critic_recommendation = original_decision]

evaluate(input_state, llm) ==
  LET loop_count == input_state.loop_count + 1
      original_decision ==
        IF llm.raises
        THEN HeuristicRecommendation(input_state.summary, input_state.research_count,
                                     input_state.summarize_count)
        ELSE StagnationOverride(Classify(llm.text), input_state.summary,
                                input_state.previous_summary,
                                input_state.research_count)
      decision ==
        IF llm.raises THEN "human_feedback"
        ELSE CriticDecision(original_decision, loop_count)
  IN  [input_state EXCEPT
         !.decision = decision,
         !.loop_count = loop_count,
         !.critic_recommendation = original_decision]

(***************************************************************************)
(* route_decision and the edges of build_graph                             *)
(***************************************************************************)

\* route_decision without the loop ceiling of line 489
route_decision_NoCeiling(state) ==
  IF state.research_count >= ResearchCap /\ state.summarize_count >= SummarizeCap
  THEN "END"
  ELSE IF state.decision = "end" THEN "END"
  ELSE IF state.decision = "reresearch" /\ state.research_count < ResearchCap
  THEN "researcher"
  ELSE IF state.decision = "resummarize" /\ state.summarize_count < SummarizeCap
  THEN "summarizer"
  ELSE IF state.decision = "human_feedback" THEN "human_feedback"
  ELSE "END"

\* route_decision without the gate on summarize_count of line 497
route_decision_NoSummarizeGate(state) ==
  IF state.loop_count >= LoopCeiling THEN "END"
  ELSE IF state.research_count >= ResearchCap /\ state.summarize_count >= SummarizeCap
  THEN "END"
  ELSE IF state.decision = "end" THEN "END"
  ELSE IF state.decision = "reresearch" /\ state.research_count < ResearchCap
  THEN "researcher"
  ELSE IF state.decision = "resummarize" THEN "summarizer"
  ELSE IF state.decision = "human_feedback" THEN "human_feedback"
  ELSE "END"

\* route_decision without the test of both caps of lines 492-493
route_decision_NoBothCaps(state) ==
  IF state.loop_count >= LoopCeiling THEN "END"
  ELSE IF state.decision = "end" THEN "END"
  ELSE IF state.decision = "reresearch" /\ state.research_count < ResearchCap
  THEN "researcher"
  ELSE IF state.decision = "resummarize" /\ state.summarize_count < SummarizeCap
  THEN "summarizer"
  ELSE IF state.decision = "human_feedback" THEN "human_feedback"
  ELSE "END"

route_decision(state) ==
  IF state.loop_count >= LoopCeiling THEN "END"
  ELSE IF state.research_count >= ResearchCap /\ state.summarize_count >= SummarizeCap
  THEN "END"
  ELSE IF state.decision = "end" THEN "END"
  ELSE IF state.decision = "reresearch" /\ state.research_count < ResearchCap
  THEN "researcher"
  ELSE IF state.decision = "resummarize" /\ state.summarize_count < SummarizeCap
  THEN "summarizer"
  ELSE IF state.decision = "human_feedback" THEN "human_feedback"
  ELSE "END"

\* build_graph with a conditional edge after the researcher
GraphEdge_RoutedResearcher(node, state) ==
  CASE node = "START" -> "researcher"
    [] node = "researcher" -> route_decision(state)
    [] node = "summarizer" -> "critic"
    [] node = "critic" -> route_decision(state)
    [] node = "human_feedback" -> route_decision(state)

\* build_graph: the node that follows `node` once it returned `state`
GraphEdge(node, state) ==
  CASE node = "START" -> "researcher"
    [] node = "researcher" -> "summarizer"
    [] node = "summarizer" -> "critic"
    [] node = "critic" -> route_decision(state)
    [] node = "human_feedback" -> route_decision(state)

(***************************************************************************)
(* stream.py: handle_human_decision and the loop of                        *)
(* run_full_research_cycle                                                 *)
(***************************************************************************)

handle_human_decision(state, decision, manual_input) ==
  IF decision = "end" THEN [state EXCEPT !.decision = "end"]
  ELSE IF decision = "reresearch"
  THEN (IF state.research_count >= ResearchCap
        THEN [state EXCEPT !.decision = "end"]
        ELSE [state EXCEPT !.decision = "reresearch"])
  ELSE IF decision = "resummarize"
  THEN (IF state.summarize_count >= SummarizeCap
        THEN [state EXCEPT !.decision = "end"]
        ELSE [state EXCEPT !.decision = "resummarize"])
  ELSE IF decision = "manual" /\ manual_input # ""
  THEN [state EXCEPT !.summary = manual_input, !.decision = "end"]
  ELSE [state EXCEPT !.decision = "end"]

\* lines 262-265: the page shown once run_full_research_cycle returned
CycleReturn(state) ==
  [pc |-> IF state.decision = "human_feedback" THEN "human_feedback" ELSE "END",
   step_count |-> 0]

\* lines 156-160: after the research part of an iteration
CycleAfterResearch(state, step_count) ==
  IF state.decision # "end"
  THEN [pc |-> "summarizer", step_count |-> step_count]
  ELSE CycleReturn(state)

\* CycleHead without the test of both caps of line 147
CycleHead_NoCapBreak(state, step_count) ==
  IF step_count >= DashMaxSteps THEN CycleReturn(state)
  ELSE IF state.decision = "end" THEN CycleReturn(state)
  ELSE IF state.loop_count >= LoopCeiling THEN CycleReturn(state)
  ELSE IF step_count + 1 = 1 \/ state.decision = "reresearch"
  THEN [pc |-> "researcher", step_count |-> step_count + 1]
  ELSE CycleAfterResearch(state, step_count + 1)

\* lines 136-154: the head of the while loop, entered with step_count
CycleHead(state, step_count) ==
  IF step_count >= DashMaxSteps THEN CycleReturn(state)
  ELSE IF state.decision = "end" THEN CycleReturn(state)
  ELSE IF state.loop_count >= LoopCeiling
          \/ (state.research_count >= ResearchCap
              /\ state.summarize_count >= SummarizeCap)
  THEN CycleReturn(state)
  ELSE IF step_count + 1 = 1 \/ state.decision = "reresearch"
  THEN [pc |-> "researcher", step_count |-> step_count + 1]
  ELSE CycleAfterResearch(state, step_count + 1)

\* lines 162-166: after the summarize part of an iteration
CycleAfterSummarize(state, step_count) ==
  IF state.decision # "end"
  THEN [pc |-> "critic", step_count |-> step_count]
  ELSE CycleReturn(state)

\* lines 168-177: after the critique part of an iteration
CycleAfterCritic(state, step_count) ==
  IF state.decision = "human_feedback" THEN CycleReturn(state)
  ELSE IF state.decision = "end" THEN CycleReturn(state)
  ELSE IF state.decision \notin {"reresearch", "resummarize"} THEN CycleReturn(state)
  ELSE CycleHead(state, step_count)

\* run_full_research_cycle: what follows `node` once it returned `state`
CycleEdge(node, state, step_count) ==
  CASE node = "START" -> CycleHead(state, 0)
    [] node = "researcher" -> CycleAfterResearch(state, step_count)
    [] node = "summarizer" -> CycleAfterSummarize(state, step_count)
    [] node = "critic" -> CycleAfterCritic(state, step_count)

(***************************************************************************)
(* State                                                                   *)
(***************************************************************************)

VARIABLES
  mode,         \* "graph": main() of run.py; "dashboard": stream.py
  search_tool,  \* run.py's search_tool is configured (not None)
  state,        \* the GraphState record (None on the dashboard's welcome page)
  pc,           \* the node to run next; "human_feedback" waits for the
                \* operator; "END": the graph ended / the dashboard's final page;
                \* "WELCOME": the dashboard's page without a session
  step_count,   \* run_full_research_cycle's step_count (0 when not running)
  last,         \* the step executed last and what it consulted
  runs,         \* number of executions of the researcher and summarizer nodes
                \* that `state` results from
  searches,     \* the phrasings handed to search_tool.run by these, in order
  executed,     \* node executions of graph.invoke so far (0 in the dashboard,
                \* which calls the nodes itself)
  overwritten,  \* the value summary had before its most recent overwrite
  research_state,  \* the dashboard's st.session_state.research_state: while
                \* run_full_research_cycle runs, the record the cycle was
                \* called with (None under run.py)
  recorded      \* runs, searches and overwritten as they were when
                \* research_state was stored

vars ==
  <<mode, search_tool, state, pc, step_count, last, runs, searches, executed,
    overwritten, research_state, recorded>>

Nodes == {"researcher", "summarizer"}

\* stream.py lines 58-59, 217: st.session_state.research_state = None
None == [research_state |-> "None"]

\* main(), lines 540-550, and stream.py lines 198-208
initial_state(query) ==
  [query |-> query, raw_content |-> "", summary |-> "", previous_summary |-> "",
   decision |-> "", loop_count |-> 0, research_count |-> 0, summarize_count |-> 0,
   critic_recommendation |-> ""]

Step(op, arg, text, search_calls, model_calls) ==
  [op |-> op, arg |-> arg, text |-> text, search_calls |-> search_calls,
   model_calls |-> model_calls]

\* where control goes after `node` returned `new`
Edge(node, new) ==
  IF mode = "graph"
  THEN [pc |-> GraphEdge(node, new), step_count |-> step_count]
  ELSE CycleEdge(node, new, step_count)

Goto(edge) == pc' = edge.pc /\ step_count' = edge.step_count

\* run.py: main() hands initial_state to graph.invoke; stream.py: the script
\* starts without a session (lines 58-63), on the welcome page
Init ==
  /\ mode \in {"graph", "dashboard"}
  /\ search_tool \in BOOLEAN
  /\ IF mode = "graph"
     THEN /\ \E query \in Queries : state = initial_state(query)
          /\ pc = "researcher"
     ELSE /\ state = None
          /\ pc = "WELCOME"
  /\ research_state = None
  /\ step_count = 0
  /\ executed = 0
  /\ last = Step("START", "", "", 0, 0)
  /\ runs = [n \in Nodes |-> 0]
  /\ searches = <<>>
  /\ overwritten = ""
  /\ recorded = [runs |-> runs, searches |-> searches, overwritten |-> overwritten]

\* nothing has run yet in the session
Fresh ==
  /\ last' = Step("START", "", "", 0, 0)
  /\ runs' = [n \in Nodes |-> 0]
  /\ searches' = <<>>
  /\ overwritten' = ""

\* st.session_state.research_state = updated_state (stream.py lines 209,
\* 217, 260, 293, 307, 317, 333)
Store ==
  /\ research_state' = state'
  /\ recorded' = [runs |-> runs', searches |-> searches', overwritten |-> overwritten']

\* stream.py lines 259-260: when the cycle returned, its result replaces
\* st.session_state.research_state; run.py has no such record
Stored ==
  IF mode = "dashboard" /\ pc' \in {"human_feedback", "END"}
  THEN Store
  ELSE UNCHANGED <<research_state, recorded>>

Ran(node) == runs' = [runs EXCEPT ![node] = @ + 1]

\* graph.invoke counts the execution of a node
Counted == executed' = (IF mode = "graph" THEN executed + 1 ELSE executed)

Researcher ==
  /\ pc = "researcher"
  /\ \E search \in SearchesOf(state, search_tool) :
       \E llm \in ResearchModelsOf(state, search_tool, search) :
       /\ state' = run_research(state, search_tool, search, llm)
       /\ last' = Step("researcher", "", "",
                       IF ResearchCallsSearch(state, search_tool) THEN 1 ELSE 0,
                       IF ResearchCallsModel(state, search_tool, search) THEN 1 ELSE 0)
  /\ searches' = (IF ResearchCallsSearch(state, search_tool)
                  THEN Append(searches, SearchQuery(state.query))
                  ELSE searches)
  /\ Goto(Edge("researcher", state'))
  /\ Ran("researcher")
  /\ Counted
  /\ UNCHANGED <<mode, search_tool, overwritten>>
  /\ Stored

Summarizer ==
  /\ pc = "summarizer"
  /\ \E attempts \in SummarizerAttempts :
       /\ state' = summarize(state, attempts)
       /\ last' = Step("summarizer", "", "", 0, SummarizeCalls(state, attempts))
  /\ overwritten' = state.summary
  /\ Goto(Edge("summarizer", state'))
  /\ Ran("summarizer")
  /\ Counted
  /\ UNCHANGED <<mode, search_tool, searches>>
  /\ Stored

Critic ==
  /\ pc = "critic"
  /\ \E llm \in CriticOutcomes :
       /\ state' = evaluate(state, llm)
       /\ last' = Step("critic", IF llm.raises THEN "raised" ELSE Classify(llm.text),
                       IF llm.raises THEN "" ELSE llm.text, 0, 1)
  /\ Goto(Edge("critic", state'))
  /\ Counted
  /\ UNCHANGED <<mode, search_tool, runs, searches, overwritten>>
  /\ Stored

\* get_human_feedback leaves its loop with the operator's choice
HumanFeedback ==
  /\ mode = "graph"
  /\ pc = "human_feedback"
  /\ \E inp \in OperatorInputs : \E stream \in StreamsFor(inp) :
       LET outcome == PromptOutcome(state, inp, stream)
       IN  /\ outcome # "again"
           /\ state' = get_human_feedback(state, inp, stream)
           /\ last' = Step("human_feedback", outcome,
                           IF outcome = "manual" THEN ManualSummary(stream) ELSE "",
                           0, 0)
           /\ overwritten' = (IF outcome = "manual" THEN state.summary ELSE overwritten)
  /\ Goto(Edge("human_feedback", state'))
  /\ Counted
  /\ UNCHANGED <<mode, search_tool, runs, searches, research_state, recorded>>

\* get_human_feedback turns a capped "research" / "summarize" choice down
\* and prompts again (`continue`, lines 408-410 and 416-418)
HumanRefused ==
  /\ mode = "graph"
  /\ pc = "human_feedback"
  /\ \E inp \in OperatorInputs : \E stream \in StreamsFor(inp) :
       /\ PromptOutcome(state, inp, stream) = "again"
       /\ Refused(state, inp) # "other"
       /\ last' = Step("prompt", Refused(state, inp), "", 0, 0)
  /\ UNCHANGED <<mode, search_tool, state, pc, step_count, runs, searches, executed,
               overwritten, research_state, recorded>>

\* get_human_feedback prompts again after an invalid choice, an input error
\* or a manual entry without text: nothing but the console changes
HumanInvalid ==
  /\ mode = "graph"
  /\ pc = "human_feedback"
  /\ \E inp \in OperatorInputs : \E stream \in StreamsFor(inp) :
       /\ PromptOutcome(state, inp, stream) = "again"
       /\ Refused(state, inp) = "other"
  /\ UNCHANGED vars

(***************************************************************************)
(* stream.py: the buttons of the "Your Input Needed" page (lines 275-341)  *)
(* and of the final page (lines 343-367)                                   *)
(***************************************************************************)

\* "Accept Summary"
DashAccept ==
  /\ mode = "dashboard"
  /\ pc = "human_feedback"
  /\ state' = handle_human_decision(state, "end", "")
  /\ last' = Step("human_feedback", "accept", "", 0, 0)
  /\ Goto([pc |-> "END", step_count |-> 0])
  /\ UNCHANGED <<mode, search_tool, runs, searches, executed, overwritten>>
  /\ Store

\* "Research More" / "Improve Summary" below the cap: the decision is stored
\* and current_step = "auto_research" starts run_full_research_cycle again
DashRedo ==
  /\ mode = "dashboard"
  /\ pc = "human_feedback"
  /\ \E decision \in {"reresearch", "resummarize"} :
       /\ IF decision = "reresearch"
          THEN state.research_count < ResearchCap
          ELSE state.summarize_count < SummarizeCap
       /\ state' = handle_human_decision(state, decision, "")
       /\ last' = Step("human_feedback",
                       IF decision = "reresearch" THEN "research" ELSE "summarize",
                       "", 0, 0)
  /\ Goto(CycleEdge("START", state', 0))
  /\ UNCHANGED <<mode, search_tool, runs, searches, executed, overwritten>>
  /\ Store

\* "Research More" / "Improve Summary" at the cap (lines 310-311 and
\* 320-321): st.error, nothing is stored, the page is shown again
DashRefused ==
  /\ mode = "dashboard"
  /\ pc = "human_feedback"
  /\ \E decision \in {"reresearch", "resummarize"} :
       /\ IF decision = "reresearch"
          THEN state.research_count >= ResearchCap
          ELSE state.summarize_count >= SummarizeCap
       /\ last' = Step("prompt",
                       IF decision = "reresearch" THEN "research" ELSE "summarize",
                       "", 0, 0)
  /\ UNCHANGED <<mode, search_tool, state, pc, step_count, runs, searches, executed,
               overwritten, research_state, recorded>>

\* "Use Manual Input" with blank text (lines 340-341): st.error
DashBlankManual ==
  /\ mode = "dashboard"
  /\ pc = "human_feedback"
  /\ \E manual_input \in DashManualInputs : Strip(manual_input) = ""
  /\ UNCHANGED vars

\* "Use Manual Input" with text
DashManual ==
  /\ mode = "dashboard"
  /\ pc = "human_feedback"
  /\ \E manual_input \in DashManualInputs :
       /\ Strip(manual_input) # ""
       /\ state' = handle_human_decision(state, "manual", manual_input)
       /\ last' = Step("human_feedback", "manual", manual_input, 0, 0)
  /\ overwritten' = state.summary
  /\ Goto([pc |-> "END", step_count |-> 0])
  /\ UNCHANGED <<mode, search_tool, runs, searches, executed>>
  /\ Store

\* "Continue Research" / "Improve Summary" of the final page: both only set
\* current_step = "auto_research", which calls run_full_research_cycle
DashContinue ==
  /\ mode = "dashboard"
  /\ pc = "END"
  /\ Goto(CycleEdge("START", state, 0))
  /\ UNCHANGED <<mode, search_tool, state, last, runs, searches, executed, overwritten,
               research_state, recorded>>

(***************************************************************************)
(* stream.py: the sidebar (lines 190-219), drawn on every page and while   *)
(* run_full_research_cycle runs.  A widget event that arrives while the    *)
(* script runs ends that run at its next st.* call (between two nodes) and *)
(* starts the script again.                                                *)
(***************************************************************************)

\* "Start Research" with a query (lines 196-211): a new session replaces
\* the stored one and current_step = "auto_research" starts the cycle
DashStart ==
  /\ mode = "dashboard"
  /\ \E query \in Queries :
       /\ Strip(query) # ""
       /\ state' = initial_state(query)
  /\ Goto(CycleEdge("START", state', 0))
  /\ Fresh
  /\ Store
  /\ UNCHANGED <<mode, search_tool, executed>>

\* "Clear History" (lines 215-219): no session, the welcome page
DashClear ==
  /\ mode = "dashboard"
  /\ state' = None
  /\ Goto([pc |-> "WELCOME", step_count |-> 0])
  /\ Fresh
  /\ Store
  /\ UNCHANGED <<mode, search_tool, executed>>

\* a widget event that changes nothing of the session (the query box is
\* edited, "Start Research" is clicked without a query) while the cycle
\* runs: current_state and the executions it results from are lost, and
\* the script, with current_step still "auto_research", calls
\* run_full_research_cycle on the stored state (lines 251-259)
DashRerun ==
  /\ mode = "dashboard"
  /\ pc \in {"researcher", "summarizer", "critic"}
  /\ state' = research_state
  /\ Goto(CycleEdge("START", research_state, 0))
  /\ last' = Step("rerun", "", "", 0, 0)
  /\ runs' = recorded.runs
  /\ searches' = recorded.searches
  /\ overwritten' = recorded.overwritten
  /\ UNCHANGED <<mode, search_tool, executed, research_state, recorded>>

Next ==
  \/ Researcher
  \/ Summarizer
  \/ Critic
  \/ HumanFeedback
  \/ HumanRefused
  \/ HumanInvalid
  \/ DashAccept
  \/ DashRedo
  \/ DashRefused
  \/ DashBlankManual
  \/ DashManual
  \/ DashContinue
  \/ DashStart
  \/ DashClear
  \/ DashRerun

Spec == Init /\ [][Next]_vars

(***************************************************************************)
(* The graph of run.py alone.  graph.invoke runs the node an edge leads to *)
(* as soon as the node before it returned, and the researcher, the         *)
(* summarizer and the critic return: control does not stay at one of them  *)
(* forever.  get_human_feedback returns only                               *)
(* once the operator made a choice it accepts: its loop (lines 398-465)    *)
(* has no bound, and control may stay there forever.                       *)
(***************************************************************************)

GraphInit == Init /\ mode = "graph"

GraphNext ==
  \/ Researcher
  \/ Summarizer
  \/ Critic
  \/ HumanFeedback
  \/ HumanRefused
  \/ HumanInvalid

PcValues == {"researcher", "summarizer", "critic", "human_feedback", "END"}

\* control leaves `node`
Leaves(node) == pc = node /\ pc' \in PcValues \ {node}

LiveSpec ==
  /\ GraphInit
  /\ [][GraphNext]_vars
  /\ WF_pc(Leaves("researcher"))
  /\ WF_pc(Leaves("summarizer"))
  /\ WF_pc(Leaves("critic"))

(***************************************************************************)
(* Properties                                                              *)
(***************************************************************************)

\* a session exists (the dashboard is not on its welcome page)
InSession == pc # "WELCOME"

\* the step starts or clears a session in the sidebar, or starts the cycle
\* again from the stored state: it is not a step of the session
Restarted == last'.op \in {"START", "rerun"}

\* the steps of a behaviour that are an execution of a node
ResearcherRan == runs'["researcher"] = runs["researcher"] + 1

SummarizerRan == runs'["summarizer"] = runs["summarizer"] + 1

CriticRan == pc = "critic" /\ last'.op = "critic" /\ state' # state

\* the escalation is left with a choice it accepted
EscalationExit ==
  pc = "human_feedback" /\ pc' # "human_feedback" /\ last'.op = "human_feedback"

\* C1: every run of the graph in which the operator, whenever asked, ends
\* up making a valid choice reaches END, and when it is there loop_count
\* (the number of critique and escalation passes) is at most 10
TerminatesWithinCeiling ==
  /\ <>[](pc = "human_feedback") \/ <>(pc = "END")
  /\ [](pc = "END" => state.loop_count <= LoopCeiling)

\* C1: a run that ended after exactly 10 passes, the last one an escalation
\* following alternating decisions
EndsAtCeiling ==
  /\ pc = "END"
  /\ state.loop_count = LoopCeiling
  /\ last.op = "human_feedback"
  /\ state.research_count > 1
  /\ state.summarize_count > state.research_count

\* the critic ran last, on a summary near-identical to previous_summary
StagnantAfterCritic ==
  /\ last.op = "critic"
  /\ state.summary # ""
  /\ state.previous_summary # ""
  /\ Similar(state.summary, state.previous_summary)

\* C2: after the critic ran on a non-empty summary that is identical or
\* near-identical to a non-empty previous_summary, decision is not
\* "resummarize", and it is "reresearch" only if research_count < 4
StagnationDecision ==
  StagnantAfterCritic =>
    /\ state.decision # "resummarize"
    /\ state.decision = "reresearch" => state.research_count < ResearchCap

\* the first research and the first summarize succeeded and the first
\* critique pass classified the summary as "end"
FirstPassClassifiedEnd ==
  /\ last.op = "critic"
  /\ last.arg = "end"
  /\ runs["researcher"] = 1
  /\ runs["summarizer"] = 1
  /\ ~is_error_content(state.raw_content)
  /\ state.summary = SummaryA

\* C3: when the first research and summarize succeed and the first critique
\* pass classifies the summary as "end", the critic's decision is "end", the
\* run is at END without an escalation, and the counters are 1, 1 and 1
AcceptedOnFirstPass ==
  FirstPassClassifiedEnd =>
    /\ state.decision = "end"
    /\ pc = "END"
    /\ state.research_count = 1
    /\ state.summarize_count = 1
    /\ state.loop_count = 1

\* C4: summarize_count never exceeds the cap of 4
SummarizeCountWithinCap == InSession => state.summarize_count <= SummarizeCap

\* C5: a summarizer execution that finds its attempt limit used up
\* (summarize_count becomes greater than 3) leaves a non-empty summary as it
\* was and calls the model not once, however often it is repeated; for the
\* same query and content and no summary it would give the fixed notice
IdempotentAtLimit ==
  /\ [][SummarizerRan /\ state.summarize_count + 1 > SummarizeNodeLimit
          /\ state.summary # ""
        => /\ state'.summary = state.summary
           /\ (last' # last => last'.model_calls = 0)]_vars
  /\ [](InSession =>
          \A attempts \in SummarizerAttempts :
            summarize([state EXCEPT !.summary = "",
                                    !.summarize_count = SummarizeNodeLimit],
                      attempts).summary = LimitReachedNotice)

\* C5: the summarizer ran a second time over its limit, on content it would
\* otherwise have summarized, and the summary is the one it found
RepeatedAtLimit ==
  /\ last.op = "summarizer"
  /\ state.summarize_count > SummarizeNodeLimit + 1
  /\ ~is_error_content(state.raw_content)
  /\ state.summary # ""
  /\ state.summary = overwritten
  /\ last.model_calls = 0

\* C6: after the summarizer ran, decision is "end" if it found its attempt
\* limit used up and "" otherwise
SummarizerDecision ==
  last.op = "summarizer" =>
    state.decision = (IF state.summarize_count > SummarizeNodeLimit THEN "end" ELSE "")

\* C7: research_count is the number of researcher executions and
\* summarize_count the number of summarizer executions, whatever path they
\* took and whatever other steps ran
CounterAccounting ==
  InSession =>
    /\ state.research_count = runs["researcher"]
    /\ state.summarize_count = runs["summarizer"]

\* C7: four researcher and five summarizer executions, the last of each on its
\* limit path, with critique and escalation passes in between
CountedOnLimitPaths ==
  /\ runs["researcher"] = ResearchNodeLimit + 1
  /\ runs["summarizer"] = SummarizeNodeLimit + 2
  /\ state.raw_content = AttemptLimitNotice(state.query)
  /\ state.loop_count > runs["summarizer"]

\* C8: a "research" choice with research_count >= 4 and a "summarize" choice
\* with summarize_count >= 4 are turned down: the step is a new prompt that
\* changes no field of the state, on the command line and in the dashboard
EscalationRefusal ==
  /\ [][pc = "human_feedback" /\ last' # last
          /\ \/ last'.arg = "research" /\ state.research_count >= ResearchCap
             \/ last'.arg = "summarize" /\ state.summarize_count >= SummarizeCap
        => last'.op = "prompt" /\ state' = state /\ pc' = "human_feedback"]_vars
  /\ [](InSession =>
          \A inp \in OperatorInputs, stream \in ManualStreams :
            (\/ Refused(state, inp) = "research"
                  /\ state.research_count >= ResearchCap
             \/ Refused(state, inp) = "summarize"
                  /\ state.summarize_count >= SummarizeCap)
            => PromptOutcome(state, inp, stream) = "again")

\* C8: the command-line escalation has just turned down "summarize"
SummarizeRefused ==
  /\ mode = "graph"
  /\ pc = "human_feedback"
  /\ last.op = "prompt"
  /\ last.arg = "summarize"
  /\ state.summarize_count >= SummarizeCap

\* C9: once the operator supplied a manual summary, summary is that text,
\* decision is "end" and the run is at END, where it stays without another
\* node execution
ManualRoundTrip ==
  last.op = "human_feedback" /\ last.arg = "manual" =>
    /\ state.summary = last.text
    /\ state.decision = "end"
    /\ pc = "END"

\* C9: the operator typed two paragraphs on the command line and two blank
\* lines; the summary is what was typed before them
ManualAccepted ==
  /\ mode = "graph"
  /\ last.op = "human_feedback"
  /\ last.arg = "manual"
  /\ last.text = " Gravity is curvature.\n\nIt bends light."
  /\ state.summary = " Gravity is curvature.\n\nIt bends light."
  /\ pc = "END"

\* C10: previous_summary is the value summary had before its most recent
\* overwrite by the summarizer or by a manual summary
PreviousIsOverwritten == InSession => state.previous_summary = overwritten

\* the five values of decision
DecisionValues == {"", "reresearch", "resummarize", "human_feedback", "end"}

\* C11: decision is always one of the five values, and the decision routed
\* on after a critique pass or an escalation was written by that very step:
\* it is one of the non-empty values and not the one the step found
DecisionFresh ==
  /\ [](InSession => state.decision \in DecisionValues)
  /\ [][CriticRan \/ EscalationExit =>
          /\ state'.decision \in DecisionValues \ {""}
          /\ state'.decision # state.decision]_vars

\* C11: the operator asked for more research after the critic had escalated;
\* the router read "reresearch"
RoutedOnFreshDecision ==
  /\ mode = "graph"
  /\ last.op = "human_feedback"
  /\ last.arg = "research"
  /\ state.decision = "reresearch"
  /\ pc = "researcher"

\* C12: every exit of the escalation, on the command line and in the
\* dashboard, increases loop_count by exactly 1
EscalationCountsLoop ==
  [][EscalationExit => state'.loop_count = state.loop_count + 1]_vars

\* what C13 asks of the node `target` chosen for the state `routed`
Gated(routed, target) ==
  /\ target = "researcher" =>
       routed.decision = "reresearch" /\ routed.research_count < ResearchCap
  /\ target = "summarizer" =>
       routed.decision = "resummarize" /\ routed.summarize_count < SummarizeCap
  /\ routed.decision = "reresearch" /\ routed.research_count >= ResearchCap =>
       target = "END"
  /\ routed.decision = "resummarize" /\ routed.summarize_count >= SummarizeCap =>
       target = "END"
  /\ routed.decision \notin {"reresearch", "resummarize", "human_feedback"} =>
       target = "END"

\* C13: the graph's router sends "reresearch" to the researcher only with
\* research_count < 4 and "resummarize" to the summarizer only with
\* summarize_count < 4; with the counter at its cap, and for "end", "" and any
\* other decision, it gives END.  Checked on every routed step of a run and,
\* at the start, on route_decision for every decision and counter values
RoutingGates ==
  /\ [][mode = "graph" /\ (CriticRan \/ EscalationExit) => Gated(state', pc')]_vars
  /\ [](last.op = "START" /\ InSession =>
          \A decision \in DecisionValues \cup {"continue"},
             research_count \in 0..(ResearchCap + 1),
             summarize_count \in 0..(SummarizeCap + 1),
             loop_count \in 0..(LoopCeiling + 1) :
            LET routed == [state EXCEPT !.decision = decision,
                                        !.research_count = research_count,
                                        !.summarize_count = summarize_count,
                                        !.loop_count = loop_count]
            IN  Gated(routed, route_decision(routed)))

\* C13: the critic asked for research with research_count at the cap and the
\* run ended
ResearchGateClosed ==
  /\ mode = "graph"
  /\ last.op = "critic"
  /\ state.decision = "reresearch"
  /\ state.research_count >= ResearchCap
  /\ pc = "END"

\* C14: whenever the critic's decision is "human_feedback", the escalation is
\* the next step, whatever the counters are
EscalateReachesOperator ==
  mode = "graph" /\ last.op = "critic" /\ state.decision = "human_feedback" =>
    pc = "human_feedback"

\* C15: a critique pass that ends with loop_count at the ceiling of 10, or
\* with research_count and summarize_count both at their caps, decides
\* "human_feedback"
LimitOverride ==
  /\ last.op = "critic"
  /\ \/ state.loop_count >= LoopCeiling
     \/ state.research_count >= ResearchCap /\ state.summarize_count >= SummarizeCap
  => state.decision = "human_feedback"

\* the fields of the GraphState record
SessionFields ==
  {"query", "raw_content", "summary", "previous_summary", "decision",
   "loop_count", "research_count", "summarize_count", "critic_recommendation"}

\* C16: whatever search and the models do, every node returns a session
\* record and control goes to a node or to END: a research leaves content (a
\* result or a placeholder notice), a summarize leaves a summary, and a
\* critique pass whose classifier call raised escalates
NoAbnormalTermination ==
  /\ [](InSession =>
          /\ DOMAIN state = SessionFields
          /\ state.decision \in DecisionValues
          /\ state.loop_count \in Nat
          /\ state.research_count \in Nat
          /\ state.summarize_count \in Nat
          /\ pc \in PcValues)
  /\ [][ResearcherRan =>
          /\ state'.raw_content # ""
          /\ last'.model_calls = 1 =>
               \/ StartsWith(state'.raw_content, "Knowledge base information for '")
               \/ state'.raw_content = LimitedNotice(state.query)
               \/ StartsWith(state'.raw_content, "Research encountered difficulties for '")]_vars
  /\ [][SummarizerRan => state'.summary # ""]_vars
  /\ [][CriticRan /\ last'.arg = "raised" =>
          state'.decision = "human_feedback" /\ pc' \in {"human_feedback", "END"}]_vars

\* C16: the research model raised, the summarizer fell back to its fixed
\* summary and the classifier call raised: the operator is asked
EscalatedAfterFailures ==
  /\ last.op = "critic"
  /\ last.arg = "raised"
  /\ StartsWith(state.raw_content, "Research encountered difficulties for '")
  /\ state.summary = LimitedSummary(state.query)
  /\ pc = "human_feedback"

\* C17: no search phrasing is used twice within one session
NoRepeatedPhrasing ==
  \A i, j \in 1..Len(searches) : i # j => searches[i] # searches[j]

\* C18: after a critique pass whose classifier call returned, the stored
\* recommendation is the classification parsed from the response
RecommendationIsClassification ==
  last.op = "critic" /\ last.arg # "raised" =>
    state.critic_recommendation = last.arg

\* C19: an execution of the researcher changes raw_content, research_count
\* and decision and nothing else of the session, and no step of a session
\* changes its query
ResearchFrame ==
  /\ [][ResearcherRan =>
          state' = [state EXCEPT !.raw_content = state'.raw_content,
                                 !.research_count = state'.research_count,
                                 !.decision = state'.decision]]_vars
  /\ [][last'.op # "START" => state'.query = state.query]_vars

\* C19: a later research ran on a session holding a summary, the summary
\* before it and a recommendation
ResearchKeptSummary ==
  /\ last.op = "researcher"
  /\ state.research_count >= 2
  /\ state.summary # ""
  /\ state.previous_summary # ""
  /\ state.critic_recommendation # ""
  /\ state.loop_count > 0

\* C20: a session starts, and starts again, at the researcher; after every
\* execution of the researcher the summarizer is next and after every
\* execution of the summarizer the critic is next, and the step the session
\* takes there is that node's
StepOrdering ==
  /\ [](InSession /\ last.op \in {"START", "rerun"} => pc = "researcher")
  /\ [][ResearcherRan => pc' = "summarizer"]_vars
  /\ [][SummarizerRan => pc' = "critic"]_vars
  /\ [][pc = "researcher" /\ state' # state /\ ~Restarted => ResearcherRan]_vars
  /\ [][pc = "summarizer" /\ state' # state /\ ~Restarted => SummarizerRan]_vars
  /\ [][pc = "critic" /\ state' # state /\ ~Restarted => last'.op = "critic"]_vars

\* C20: in the dashboard a second research was followed by a summarize and
\* the critic is next
CritiqueAfterSummarize ==
  /\ mode = "dashboard"
  /\ last.op = "summarizer"
  /\ state.research_count >= 2
  /\ state.decision = ""
  /\ pc = "critic"


(***************************************************************************)
(* Escalation choices, low-information results, the classifier             *)
(***************************************************************************)

\* C21: when the operator's accepted choice is resummarization, the next
\* step executed is Summarize and research_count is left as it was, under
\* the graph and under the dashboard
ResummarizeGoesToSummarize ==
  [][EscalationExit /\ last'.op = "human_feedback" /\ last'.arg = "summarize"
       => /\ pc' = "summarizer"
          /\ state'.research_count = state.research_count]_vars

\* the results of run_research that carry no information on the query
LowInformation(query, content) ==
  \/ content \in {LimitedNotice(query), MinimalNotice(query), AttemptLimitNotice(query)}
  \/ StartsWith(content, "Research encountered difficulties")
  \/ StartsWith(content, "Research error")

\* the counters Research is entered with: a first execution, and the one
\* that meets the attempt limit
EnteredCounts == {0, ResearchNodeLimit}

\* C22: every low-information result of Research, for every query length,
\* makes the following Summarize skip generation and set the fixed
\* 'research was limited' summary
LowInformationSkipsGeneration ==
  last.op = "START" =>
    \A query \in Queries \cup {LongQuery}, tool \in BOOLEAN,
       search \in SearchOutcomes, llm \in ResearchModelOutcomes,
       research_count \in EnteredCounts, attempts \in SummarizerAttempts :
      LET researched ==
            run_research([initial_state(query) EXCEPT !.research_count = research_count],
                         tool, search, llm)
      IN  LowInformation(query, researched.raw_content) =>
            /\ SummarizeCalls(researched, attempts) = 0
            /\ summarize(researched, attempts).summary = LimitedSummary(query)

\* C23: when the classifier call fails, Critique adds exactly 1 to
\* loop_count, decides to escalate and records the heuristic recommendation:
\* reresearch for a failure indicator with research_count < 4, else
\* resummarize for a summary under 80 characters with summarize_count < 4,
\* else end
ClassifierFailureHeuristic ==
  [][CriticRan /\ last'.op = "critic" /\ last'.arg = "raised" =>
       /\ state'.loop_count = state.loop_count + 1
       /\ state'.decision = "human_feedback"
       /\ state'.critic_recommendation =
            (IF (\E w \in FailureIndicators : Contains(Lower(state.summary), w))
                /\ state.research_count < ResearchCap
             THEN "reresearch"
             ELSE IF Len(Strip(state.summary)) < ShortSummaryLen
                     /\ state.summarize_count < SummarizeCap
             THEN "resummarize"
             ELSE "end")]_vars

\* the classifier call failed on a short summary below the cap
HeuristicRecommended ==
  /\ last.op = "critic"
  /\ last.arg = "raised"
  /\ state.decision = "human_feedback"
  /\ state.critic_recommendation = "resummarize"
  /\ Len(Strip(state.summary)) < ShortSummaryLen

\* C24: Summarize makes at most 3 generation attempts; when every attempt
\* fails (raises, or returns an empty or too-short response) and a summary
\* exists, the summary stays that one; the emergency summary is produced
\* only when no summary exists
FailedAttemptsKeepSummary ==
  pc = "summarizer" /\ state.summarize_count < SummarizeNodeLimit
    /\ ~is_error_content(state.raw_content) =>
    \A attempts \in SummarizerAttempts :
      /\ SummarizeCalls(state, attempts) <= MaxAttempts
      /\ (\A k \in 1..MaxAttempts : ~GoodCandidate(attempts[k])) /\ state.summary # ""
           => summarize(state, attempts).summary = state.summary
      /\ summarize(state, attempts).summary
           = EmergencySummary(state.query, state.raw_content)
           => state.summary = ""

\* the classification of `text` by the first of the three keywords found in
\* it, in the order reresearch, resummarize, end
ByKeyword(text) ==
  IF Contains(text, "reresearch") THEN "reresearch"
  ELSE IF Contains(text, "resummarize") THEN "resummarize"
  ELSE IF Contains(text, "end") THEN "end"
  ELSE "resummarize"

\* C25 as stated: the parsed classification is the first keyword the
\* response contains, resummarize when it contains none
ParsedByKeyword ==
  last.op = "critic" /\ last.arg # "raised" => last.arg = ByKeyword(last.text)

\* C25: the parsed classification is the first keyword the lower-cased
\* response contains, in the order reresearch, resummarize, end, and
\* resummarize when it contains none
ParsedByLowerCasedKeyword ==
  last.op = "critic" /\ last.arg # "raised" => last.arg = ByKeyword(Lower(last.text))

\* 'reresearch' won over a co-occurring keyword in another case
ReresearchWon ==
  /\ last.op = "critic"
  /\ last.arg = "reresearch"
  /\ Contains(Lower(last.text), "end")
  /\ ~Contains(last.text, "end")

(***************************************************************************)
(* Bounds on the counters                                                  *)
(***************************************************************************)

\* C26: research_count never exceeds 4, under the graph and under the
\* dashboard
ResearchCountWithinCap == InSession => state.research_count <= ResearchCap

\* the dashboard ran Research up to the cap
DashboardAtResearchCap ==
  /\ mode = "dashboard"
  /\ last.op = "researcher"
  /\ state.research_count = ResearchCap

\* C27: a run of the graph executes at most 21 nodes, fewer than the
\* recursion limit given to graph.invoke
BoundedExecutions ==
  mode = "graph" => executed <= 21 /\ executed < RecursionLimit

\* a run of the graph that ended after 21 executions
LongestRun == mode = "graph" /\ pc = "END" /\ executed = 21

\* C28: whenever Escalation runs under the graph, loop_count < 10 and one of
\* research_count, summarize_count is below 4, so one of the choices
\* "research" and "summarize" is accepted
EscalationNotTrapped ==
  mode = "graph" /\ pc = "human_feedback" =>
    /\ state.loop_count < LoopCeiling
    /\ state.research_count < ResearchCap \/ state.summarize_count < SummarizeCap
    /\ \E inp \in {Line("2"), Line("3")} : \A stream \in ManualStreams :
         PromptOutcome(state, inp, stream) \in {"research", "summarize"}

\* Escalation turned "summarize" down at the cap and still takes "research"
OneChoiceLeft ==
  /\ mode = "graph"
  /\ pc = "human_feedback"
  /\ last.op = "prompt"
  /\ last.arg = "summarize"
  /\ state.summarize_count >= SummarizeCap
  /\ \A stream \in ManualStreams : PromptOutcome(state, Line("2"), stream) = "research"

\* C29: the attempt limit of Research is one below the cap of the router
\* and of Escalation, which both allow Research at research_count = 3; the
\* execution that brings research_count to 4 consults neither search nor
\* generation and sets the attempt-limit notice; those that bring it to 1, 2
\* or 3 consult search or generation
ResearchLimitBelowCap ==
  [][/\ ResearchNodeLimit + 1 = ResearchCap
     /\ InSession /\ state.research_count = ResearchNodeLimit
          /\ state.loop_count < LoopCeiling
          => /\ route_decision([state EXCEPT !.decision = "reresearch"]) = "researcher"
             /\ \A stream \in ManualStreams :
                  PromptOutcome(state, Line("2"), stream) = "research"
     /\ ResearcherRan =>
          IF state'.research_count > ResearchNodeLimit
          THEN /\ last'.search_calls = 0
               /\ last'.model_calls = 0
               /\ state'.raw_content = AttemptLimitNotice(state.query)
          ELSE last'.search_calls + last'.model_calls >= 1]_vars

\* the router sent the graph to the Research execution that met the limit
ResearchedAtLimit ==
  /\ mode = "graph"
  /\ last.op = "researcher"
  /\ state.research_count = ResearchCap
  /\ state.raw_content = AttemptLimitNotice(state.query)
  /\ last.search_calls = 0
  /\ last.model_calls = 0

====
